---- MODULE Spec2Model ----
(***************************************************************************)
(* WAIIS immunization automation: the orchestrator of main.py, the         *)
(* retrying DatabaseManager.execute_query, EmailSender.send_email and the  *)
(* school-year arithmetic, as one state machine.                           *)
(*                                                                         *)
(* Four specifications share the variables:                                *)
(*   Spec      one process run of main()                                   *)
(*   SpecDB    one call of DatabaseManager.execute_query, any max_retries  *)
(*   SpecYear  one call of get_current_school_year, any current date-time  *)
(*   SpecMail  calls of send_email and test_email_connection on one sender *)
(***************************************************************************)
EXTENDS Integers, Sequences, FiniteSets, TLC

VARIABLES
    pc,             \* position of the single thread
    now,            \* datetime.now() of the run: [year, month, day, hour]
    config,         \* EMAIL_CONFIG: [use_tls, use_auth]
    args,           \* argparse namespace: [school_year, test_db, test_email, dry_run]
    exit_code,      \* value handed to sys.exit; -1 while the process runs
    interrupted,    \* a KeyboardInterrupt was raised in this run
    db_manager,     \* "unbound" | "open" | "closed"
    email_sender,   \* an EmailSender object was constructed
    school_year,    \* local of run_immunization_report: [isNone, val]
    overall_success,\* local of main, test mode
    db_success,     \* "unset" | "true" | "false"
    email_success,  \* "unset" | "true" | "false"
    pending,        \* exception in flight in run_immunization_report
    retval,         \* return value of run_immunization_report
    max_retries,    \* DatabaseManager.max_retries
    attempt,        \* loop variable of execute_query
    errs,           \* exceptions caught by execute_query so far, in order
    fetched,        \* what the connection delivered in the attempt that succeeded
    ret,            \* return value of execute_query
    raised,         \* exception execute_query raised to its caller
    msg,            \* message composed by create_email_message
    send_result,    \* return value of send_email: "unset" | "true" | "false"
    sy_result,      \* return value of get_current_school_year (SpecYear)
    events          \* every call made to a collaborator, in order

vars == <<pc, now, config, args, exit_code, interrupted, db_manager, email_sender,
          school_year, overall_success, db_success, email_success, pending, retval,
          max_retries, attempt, errs, fetched, ret, raised, msg, send_result,
          sy_result, events>>

(***************************************************************************)
(* Bounds of the model                                                     *)
(***************************************************************************)
MinYear == 2023
MaxYear == 2024
MaxHour == 1
MaxRetries == 4
MaxRows == 2
MaxCell == 2
MaxCalls == 2

(***************************************************************************)
(* Program constants                                                       *)
(***************************************************************************)
SCHOOL_YEAR_START_MONTH == 9
SCHOOL_YEAR_START_DAY == 1
DEFAULT_MAX_RETRIES == 3
YEARS_BACK == 10
YEARS_AHEAD == 5

(***************************************************************************)
(* Values                                                                  *)
(***************************************************************************)
Ev(op, ok) == [op |-> op, ok |-> ok]

NoneYear == [isNone |-> TRUE, val |-> 0]
SomeYear(y) == [isNone |-> FALSE, val |-> y]

NoError == [kind |-> "none", attempt |-> 0]
Err(kind, n) == [kind |-> kind, attempt |-> n]

NoReturn == [kind |-> "unset", rows |-> <<>>]
ReturnNone == [kind |-> "none", rows |-> <<>>]
ReturnRows(rows) == [kind |-> "rows", rows |-> rows]

NoResult == [columns |-> <<>>, rows |-> <<>>]
NoMessage == [composed |-> FALSE, subject |-> <<>>, records |-> 0, attached |-> FALSE,
              csv |-> <<>>]
NoArgs == [school_year |-> NoneYear, test_db |-> FALSE, test_email |-> FALSE,
           dry_run |-> FALSE]

BoolStr(b) == IF b THEN "true" ELSE "false"

\* The result sets a query can deliver: one column, up to MaxRows rows.
ResultSets ==
    { [columns |-> <<"ssid">>, rows |-> r] :
        r \in UNION { [1..n -> {<<c>> : c \in 1..MaxCell}] : n \in 0..MaxRows } }

(***************************************************************************)
(* utils/school_year.py                                                    *)
(***************************************************************************)
IsLeap(y) == (y % 4 = 0 /\ y % 100 # 0) \/ y % 400 = 0

DaysInMonth(y, m) ==
    IF m = 2 THEN (IF IsLeap(y) THEN 29 ELSE 28)
    ELSE IF m \in {4, 6, 9, 11} THEN 30 ELSE 31

datetime(y, m, d) == [year |-> y, month |-> m, day |-> d, hour |-> 0]

\* Every value datetime.now() can take within the bounds.
DateTimes ==
    { [year |-> y, month |-> m, day |-> d, hour |-> h] :
        y \in MinYear..MaxYear, m \in 1..12, d \in 1..31, h \in 0..MaxHour }

ValidDateTimes == { t \in DateTimes : t.day <= DaysInMonth(t.year, t.month) }

\* datetime.__lt__: field by field, most significant first.
DatetimeLT(a, b) ==
    \/ a.year < b.year
    \/ a.year = b.year /\ a.month < b.month
    \/ a.year = b.year /\ a.month = b.month /\ a.day < b.day
    \/ a.year = b.year /\ a.month = b.month /\ a.day = b.day /\ a.hour < b.hour

BeforeStart_le(today, school_year_start) == ~DatetimeLT(school_year_start, today)

BeforeStart(today, school_year_start) == DatetimeLT(today, school_year_start)

get_current_school_year(today) ==
    LET current_year == today.year
        school_year_start ==
            datetime(current_year, SCHOOL_YEAR_START_MONTH, SCHOOL_YEAR_START_DAY)
    IN  IF BeforeStart(today, school_year_start)
        THEN current_year - 1
        ELSE current_year

validate_school_year_loose(year, today) ==
    LET current_year == today.year
    IN  (current_year - YEARS_BACK) <= year /\ year <= (current_year + YEARS_AHEAD + 1)

validate_school_year(year, today) ==
    LET current_year == today.year
    IN  (current_year - YEARS_BACK) <= year /\ year <= (current_year + YEARS_AHEAD)

(***************************************************************************)
(* database/connection.py: DatabaseManager.execute_query                   *)
(***************************************************************************)
\* [dict(zip(columns, row)) for row in rows]
RowsToDicts(result) ==
    [i \in 1..Len(result.rows) |->
        [c \in { result.columns[j] : j \in 1..Len(result.columns) } |->
            result.rows[i][CHOOSE j \in 1..Len(result.columns) : result.columns[j] = c]]]

ShouldRetry_always(a, n) == a < n

ShouldRetry(a, n) == a < n - 1

IsRetryable_all(kind) == kind \in {"db", "other"}

IsRetryable(kind) == kind = "db"

Reraise(caught) == caught[Len(caught)]

\* for attempt in range(max_retries): one pass through the try block.
Attempt ==
    /\ pc = "eq_loop"
    /\ attempt < max_retries
    /\ \/ \E r \in ResultSets :
            /\ events' = Append(events, Ev("attempt", TRUE))
            /\ fetched' = r
            /\ ret' = ReturnRows(RowsToDicts(r))
            /\ pc' = "eq_done"
            /\ UNCHANGED <<errs, raised>>
       \/ \E kind \in {"db", "other"} :
            /\ events' = Append(events, Ev("attempt", FALSE))
            /\ errs' = Append(errs, Err(kind, attempt + 1))
            /\ IF IsRetryable(kind)
               THEN pc' = "eq_except_db" /\ UNCHANGED raised
               ELSE pc' = "eq_done" /\ raised' = Err(kind, attempt + 1)
            /\ UNCHANGED <<fetched, ret>>
    /\ UNCHANGED <<now, config, args, exit_code, interrupted, db_manager, email_sender,
                   school_year, overall_success, db_success, email_success, pending,
                   retval, max_retries, attempt, msg, send_result, sy_result>>

RetrySleep_nosleep ==
    /\ pc = "eq_except_db"
    /\ ShouldRetry(attempt, max_retries)
    /\ attempt' = attempt + 1
    /\ pc' = "eq_loop"
    /\ UNCHANGED <<now, config, args, exit_code, interrupted, db_manager, email_sender,
                   school_year, overall_success, db_success, email_success, pending,
                   retval, max_retries, errs, fetched, ret, raised, msg, send_result,
                   sy_result, events>>

\* except SQLAlchemyError, attempt < max_retries - 1: time.sleep, next pass.
RetrySleep ==
    /\ pc = "eq_except_db"
    /\ ShouldRetry(attempt, max_retries)
    /\ events' = Append(events, Ev("sleep", TRUE))
    /\ attempt' = attempt + 1
    /\ pc' = "eq_loop"
    /\ UNCHANGED <<now, config, args, exit_code, interrupted, db_manager, email_sender,
                   school_year, overall_success, db_success, email_success, pending,
                   retval, max_retries, errs, fetched, ret, raised, msg, send_result,
                   sy_result>>

\* except SQLAlchemyError, last attempt: raise.
RetryExhausted ==
    /\ pc = "eq_except_db"
    /\ ~ShouldRetry(attempt, max_retries)
    /\ raised' = Reraise(errs)
    /\ pc' = "eq_done"
    /\ UNCHANGED <<now, config, args, exit_code, interrupted, db_manager, email_sender,
                   school_year, overall_success, db_success, email_success, pending,
                   retval, max_retries, attempt, errs, fetched, ret, msg, send_result,
                   sy_result, events>>

\* range(max_retries) is exhausted without a return or a raise: the function
\* falls off its end and returns None.
LoopExit ==
    /\ pc = "eq_loop"
    /\ attempt >= max_retries
    /\ ret' = ReturnNone
    /\ pc' = "eq_done"
    /\ UNCHANGED <<now, config, args, exit_code, interrupted, db_manager, email_sender,
                   school_year, overall_success, db_success, email_success, pending,
                   retval, max_retries, attempt, errs, fetched, raised, msg, send_result,
                   sy_result, events>>

(***************************************************************************)
(* email_service/sender.py                                                 *)
(***************************************************************************)
get_school_year_string(year) == <<year, year + 1>>

NoFailure == [at |-> "none", cls |-> "none"]

SmtpSteps_auth_first(cfg, transmit) ==
    <<"smtp_connect">>
    \o (IF cfg.use_auth THEN <<"login">> ELSE <<>>)
    \o (IF cfg.use_tls THEN <<"starttls">> ELSE <<>>)
    \o (IF transmit THEN <<"sendmail">> ELSE <<>>)

\* The calls one SMTP session makes, in program order.
SmtpSteps(cfg, transmit) ==
    <<"smtp_connect">>
    \o (IF cfg.use_tls THEN <<"starttls">> ELSE <<>>)
    \o (IF cfg.use_auth THEN <<"login">> ELSE <<>>)
    \o (IF transmit THEN <<"sendmail">> ELSE <<>>)

\* What can go wrong in a session: any of its calls raises, either an
\* smtplib.SMTPException or another Exception (OSError, ...).
SmtpFailures(cfg, transmit) ==
    {NoFailure} \cup
    { [at |-> SmtpSteps(cfg, transmit)[i], cls |-> c] :
        i \in 1..Len(SmtpSteps(cfg, transmit)), c \in {"SMTPException", "Exception"} }

\* with smtplib.SMTP(...) as server: the calls up to the one that raises, then
\* the context manager's close (there is no connection to close when the
\* constructor itself raised).
SmtpSession(cfg, transmit, fail) ==
    LET steps == SmtpSteps(cfg, transmit)
        last == IF \E i \in 1..Len(steps) : steps[i] = fail.at
                THEN CHOOSE i \in 1..Len(steps) : steps[i] = fail.at
                ELSE Len(steps)
    IN  [i \in 1..last |-> Ev(steps[i], steps[i] # fail.at)]
        \o (IF fail.at = "smtp_connect" THEN <<>> ELSE <<Ev("smtp_close", TRUE)>>)

\* if not data: return None; else the DataFrame written as CSV text.
create_csv_attachment(data) ==
    IF data = <<>>
    THEN [isNone |-> TRUE, header |-> {}, lines |-> <<>>]
    ELSE [isNone |-> FALSE,
          header |-> DOMAIN data[1],
          lines |-> [i \in 1..Len(data) |->
                        [c \in DOMAIN data[i] |-> ToString(data[i][c])]]]

create_email_message_attach_always(data, year) ==
    [composed |-> TRUE, subject |-> get_school_year_string(year),
     records |-> Len(data), attached |-> TRUE,
     csv |-> create_csv_attachment(data).lines]

create_email_message(data, year) ==
    LET csv_buffer == create_csv_attachment(data)
        attach == data # <<>> /\ ~csv_buffer.isNone
    IN  [composed |-> TRUE, subject |-> get_school_year_string(year),
         records |-> Len(data), attached |-> attach,
         csv |-> IF attach THEN csv_buffer.lines ELSE <<>>]

SendEmailCatches_smtp_only(cls) == cls = "SMTPException"

\* except smtplib.SMTPException ... except Exception ...
SendEmailCatches(cls) == cls \in {"SMTPException", "Exception"}

\* composing the message can raise too (create_csv_attachment re-raises).
SendFailures(cfg) ==
    SmtpFailures(cfg, TRUE) \cup {[at |-> "compose", cls |-> "Exception"]}

send_email(data, year, cfg, fail) ==
    LET composed == fail.at # "compose"
        session == IF composed THEN SmtpSession(cfg, TRUE, fail) ELSE <<>>
    IN  [msg |-> IF composed THEN create_email_message(data, year) ELSE NoMessage,
         events |-> session,
         result |-> fail.at = "none",
         raises |-> fail.at # "none" /\ ~SendEmailCatches(fail.cls)]

\* except Exception: return False
test_email_connection(cfg, fail) ==
    [events |-> SmtpSession(cfg, FALSE, fail), result |-> fail.at = "none"]

(***************************************************************************)
(* main.py: main()                                                         *)
(***************************************************************************)
inputs == <<now, config, max_retries>>
eqVars == <<attempt, errs, fetched, ret, raised>>
testVars == <<overall_success, db_success, email_success>>
mailVars == <<msg, send_result>>
runVars == <<school_year, pending, retval>>

\* Python truthiness of args.school_year: None and 0 are false.
Truthy(y) == ~y.isNone /\ y.val # 0

\* --school-year values worth telling apart: absent, 0, and both sides of
\* each end of the valid range.
YearArgs(today) ==
    {NoneYear, SomeYear(0)} \cup
    { SomeYear(today.year + d) :
        d \in {0 - (YEARS_BACK + 1), 0 - YEARS_BACK, YEARS_AHEAD, YEARS_AHEAD + 1} }

AndSuccess_last(overall, this) == this

\* overall_success = overall_success and db_success (and email_success)
AndSuccess(overall, this) == overall /\ this

ReturnCode_zero(success) == 0

\* return 0 if overall_success else 1; if success: return 0 else: return 1
ReturnCode(success) == IF success THEN 0 ELSE 1

Exit(code) ==
    /\ pc' = "exited"
    /\ exit_code' = code

\* args = parse_arguments(): the command line is accepted.
ParseArguments ==
    /\ pc = "main_parse"
    /\ \E y \in YearArgs(now), td \in BOOLEAN, te \in BOOLEAN, dr \in BOOLEAN :
            args' = [school_year |-> y, test_db |-> td, test_email |-> te, dry_run |-> dr]
    /\ pc' = "main_validate"
    /\ UNCHANGED <<inputs, eqVars, testVars, mailVars, runVars, exit_code, interrupted,
                   db_manager, email_sender, sy_result, events>>

\* parse_arguments(): argparse rejects the command line (an unknown option, a
\* --school-year that is no int) and raises SystemExit(2), which is no
\* Exception and passes both except clauses of main.
ArgparseExit ==
    /\ pc = "main_parse"
    /\ Exit(2)
    /\ UNCHANGED <<inputs, eqVars, testVars, mailVars, runVars, args, interrupted,
                   db_manager, email_sender, sy_result, events>>

\* if args.test_db or args.test_email: ... else run_immunization_report(...)
SelectMode(a) ==
    IF a.test_db THEN "t_db_ctor"
    ELSE IF a.test_email THEN "t_email"
    ELSE "r_init"

\* if args.school_year and not validate_school_year(args.school_year): return 1
MainValidateSchoolYear ==
    /\ pc = "main_validate"
    /\ IF Truthy(args.school_year) /\ ~validate_school_year(args.school_year.val, now)
       THEN /\ Exit(1)
            /\ events' = Append(events, Ev("validate_school_year", FALSE))
       ELSE /\ pc' = SelectMode(args)
            /\ UNCHANGED <<exit_code, events>>
    /\ UNCHANGED <<inputs, eqVars, testVars, mailVars, runVars, args, interrupted,
                   db_manager, email_sender, sy_result>>

\* db_manager = DatabaseManager(): _initialize_engine re-raises what
\* create_engine raises; main's except Exception turns it into exit code 1.
TestDbConstruct ==
    /\ pc = "t_db_ctor"
    /\ \E ok \in BOOLEAN :
            /\ events' = Append(events, Ev("DatabaseManager", ok))
            /\ IF ok
               THEN db_manager' = "open" /\ pc' = "t_db_probe" /\ UNCHANGED exit_code
               ELSE Exit(1) /\ UNCHANGED db_manager
    /\ UNCHANGED <<inputs, eqVars, testVars, mailVars, runVars, args, interrupted,
                   email_sender, sy_result>>

\* db_success = test_database_connection(db_manager)
TestDbProbe ==
    /\ pc = "t_db_probe"
    /\ \E ok \in BOOLEAN :
            /\ events' = Append(events, Ev("test_connection", ok))
            /\ db_success' = BoolStr(ok)
    /\ pc' = "t_db_close"
    /\ UNCHANGED <<inputs, eqVars, mailVars, runVars, args, exit_code, interrupted,
                   db_manager, email_sender, overall_success, email_success, sy_result>>

\* db_manager.close(); overall_success = overall_success and db_success
TestDbClose ==
    /\ pc = "t_db_close"
    /\ db_manager' = "closed"
    /\ events' = Append(events, Ev("close", TRUE))
    /\ overall_success' = AndSuccess(overall_success, db_success = "true")
    /\ pc' = IF args.test_email THEN "t_email" ELSE "t_return"
    /\ UNCHANGED <<inputs, eqVars, mailVars, runVars, args, exit_code, interrupted,
                   email_sender, db_success, email_success, sy_result>>

\* email_sender = EmailSender(); email_success = test_email_connection(...)
TestEmail ==
    /\ pc = "t_email"
    /\ email_sender' = TRUE
    /\ \E fail \in SmtpFailures(config, FALSE) :
            LET r == test_email_connection(config, fail)
            IN  /\ events' = events \o <<Ev("test_email_connection", r.result)>> \o r.events
                /\ email_success' = BoolStr(r.result)
                /\ overall_success' = AndSuccess(overall_success, r.result)
    /\ pc' = "t_return"
    /\ UNCHANGED <<inputs, eqVars, mailVars, runVars, args, exit_code, interrupted,
                   db_manager, db_success, sy_result>>

\* return 0 if overall_success else 1
TestReturn ==
    /\ pc = "t_return"
    /\ Exit(ReturnCode(overall_success))
    /\ UNCHANGED <<inputs, eqVars, testVars, mailVars, runVars, args, interrupted,
                   db_manager, email_sender, sy_result, events>>

(***************************************************************************)
(* main.py: run_immunization_report(school_year, dry_run)                  *)
(***************************************************************************)
\* db_manager = DatabaseManager(); query_manager = QueryManager();
\* email_sender = EmailSender()
RunInit ==
    /\ pc = "r_init"
    /\ school_year' = args.school_year
    /\ \E ok \in BOOLEAN :
            /\ events' = Append(events, Ev("DatabaseManager", ok))
            /\ IF ok
               THEN /\ db_manager' = "open"
                    /\ email_sender' = TRUE
                    /\ pc' = "r_year"
                    /\ UNCHANGED pending
               ELSE /\ pending' = "exception"
                    /\ pc' = "r_except"
                    /\ UNCHANGED <<db_manager, email_sender>>
    /\ UNCHANGED <<inputs, eqVars, testVars, mailVars, retval, args, exit_code,
                   interrupted, sy_result>>

\* if school_year is None: school_year = get_current_school_year()
\* if not validate_school_year(school_year): return False
RunResolveYear ==
    /\ pc = "r_year"
    /\ LET year == IF school_year.isNone
                   THEN get_current_school_year(now)
                   ELSE school_year.val
           ok == validate_school_year(year, now)
       IN  /\ school_year' = SomeYear(year)
           /\ events' = Append(events, Ev("validate_school_year", ok))
           /\ IF ok
              THEN pc' = "r_qfile" /\ UNCHANGED retval
              ELSE pc' = "r_finally" /\ retval' = "false"
    /\ UNCHANGED <<inputs, eqVars, testVars, mailVars, pending, args, exit_code,
                   interrupted, db_manager, email_sender, sy_result>>

\* if not query_manager.validate_query_file(): return False
RunValidateQueryFile ==
    /\ pc = "r_qfile"
    /\ \E ok \in BOOLEAN :
            /\ events' = Append(events, Ev("validate_query_file", ok))
            /\ IF ok
               THEN pc' = "r_dbtest" /\ UNCHANGED retval
               ELSE pc' = "r_finally" /\ retval' = "false"
    /\ UNCHANGED <<inputs, eqVars, testVars, mailVars, school_year, pending, args,
                   exit_code, interrupted, db_manager, email_sender, sy_result>>

\* if not test_database_connection(db_manager): return False
RunTestDb ==
    /\ pc = "r_dbtest"
    /\ \E ok \in BOOLEAN :
            /\ events' = Append(events, Ev("test_connection", ok))
            /\ IF ok
               THEN pc' = "r_load" /\ UNCHANGED retval
               ELSE pc' = "r_finally" /\ retval' = "false"
    /\ UNCHANGED <<inputs, eqVars, testVars, mailVars, school_year, pending, args,
                   exit_code, interrupted, db_manager, email_sender, sy_result>>

\* query = query_manager.load_waiis_query(school_year) (re-raises what open
\* or read raises); parameters = ...; then the call of execute_query.
RunLoadQuery ==
    /\ pc = "r_load"
    /\ \E ok \in BOOLEAN :
            /\ events' = Append(events, Ev("load_waiis_query", ok))
            /\ IF ok
               THEN pc' = "eq_loop" /\ UNCHANGED pending
               ELSE pc' = "r_except" /\ pending' = "exception"
    /\ UNCHANGED <<inputs, eqVars, testVars, mailVars, school_year, retval, args,
                   exit_code, interrupted, db_manager, email_sender, sy_result>>

SkipEmail_never(dry_run) == FALSE

\* if dry_run: ... else: email_sender.send_email(...)
SkipEmail(dry_run) == dry_run

\* data = db_manager.execute_query(...) has ended: an exception goes to the
\* except clause; len(data) raises TypeError on None; then the dry-run test.
RunAfterQuery ==
    /\ pc = "eq_done"
    /\ IF raised.kind # "none" \/ ret.kind # "rows"
       THEN /\ pending' = "exception"
            /\ pc' = "r_except"
            /\ UNCHANGED retval
       ELSE IF SkipEmail(args.dry_run)
       THEN /\ retval' = "true"
            /\ pc' = "r_finally"
            /\ UNCHANGED pending
       ELSE /\ pc' = "r_send"
            /\ UNCHANGED <<pending, retval>>
    /\ UNCHANGED <<inputs, eqVars, testVars, mailVars, school_year, args, exit_code,
                   interrupted, db_manager, email_sender, sy_result, events>>

\* if email_sender.send_email(data, school_year): ... else: return False
RunSendEmail ==
    /\ pc = "r_send"
    /\ \E fail \in SendFailures(config) :
            LET r == send_email(ret.rows, school_year.val, config, fail)
            IN  /\ events' = events \o <<Ev("send_email", r.result)>> \o r.events
                /\ msg' = r.msg
                /\ IF r.raises
                   THEN /\ pending' = "exception"
                        /\ pc' = "r_except"
                        /\ UNCHANGED <<send_result, retval>>
                   ELSE /\ send_result' = BoolStr(r.result)
                        /\ retval' = BoolStr(r.result)
                        /\ pc' = "r_finally"
                        /\ UNCHANGED pending
    /\ UNCHANGED <<inputs, eqVars, testVars, school_year, args, exit_code, interrupted,
                   db_manager, email_sender, sy_result>>

\* except Exception as e: logger.error(...); return False
RunExcept ==
    /\ pc = "r_except"
    /\ pending' = "none"
    /\ retval' = "false"
    /\ pc' = "r_finally"
    /\ UNCHANGED <<inputs, eqVars, testVars, mailVars, school_year, args, exit_code,
                   interrupted, db_manager, email_sender, sy_result, events>>

\* finally: if 'db_manager' in locals(): db_manager.close(); then the return
\* value, or the KeyboardInterrupt, reaches main.
RunFinally ==
    /\ pc = "r_finally"
    /\ IF db_manager = "open"
       THEN db_manager' = "closed" /\ events' = Append(events, Ev("close", TRUE))
       ELSE UNCHANGED <<db_manager, events>>
    /\ pc' = IF pending = "interrupt" THEN "main_interrupt" ELSE "main_ret"
    /\ UNCHANGED <<inputs, eqVars, testVars, mailVars, runVars, args, exit_code,
                   interrupted, email_sender, sy_result>>

\* if success: return 0 else: return 1
MainReturn ==
    /\ pc = "main_ret"
    /\ Exit(ReturnCode(retval = "true"))
    /\ UNCHANGED <<inputs, eqVars, testVars, mailVars, runVars, args, interrupted,
                   db_manager, email_sender, sy_result, events>>

\* except KeyboardInterrupt: return 130
MainInterrupt ==
    /\ pc = "main_interrupt"
    /\ Exit(130)
    /\ UNCHANGED <<inputs, eqVars, testVars, mailVars, runVars, args, interrupted,
                   db_manager, email_sender, sy_result, events>>

\* Positions inside main's try block but outside run_immunization_report.
MainPcs == {"main_parse", "main_validate", "t_db_ctor", "t_db_probe", "t_db_close",
            "t_email", "t_return", "main_ret"}

\* Positions inside the try block of run_immunization_report.
RunPcs == {"r_init", "r_year", "r_qfile", "r_dbtest", "r_load", "eq_loop",
           "eq_except_db", "eq_done", "r_send", "r_except"}

\* SIGINT: KeyboardInterrupt is raised in the step under way. It is no
\* Exception, so no except Exception clause (test_connection, send_email,
\* run_immunization_report) stops it: inside run_immunization_report only the
\* finally block runs, elsewhere control goes straight to main's handler.
Interrupt ==
    /\ pc \in MainPcs \cup RunPcs
    /\ interrupted' = TRUE
    /\ IF pc \in RunPcs
       THEN pc' = "r_finally" /\ pending' = "interrupt"
       ELSE pc' = "main_interrupt" /\ UNCHANGED pending
    /\ UNCHANGED <<inputs, eqVars, testVars, mailVars, school_year, retval, args,
                   exit_code, db_manager, email_sender, sy_result, events>>

(***************************************************************************)
(* Initial values shared by the specifications                             *)
(***************************************************************************)
EpochInstants ==
    { [year |-> MaxYear, month |-> SCHOOL_YEAR_START_MONTH - 1, day |-> 31, hour |-> MaxHour],
      datetime(MaxYear, SCHOOL_YEAR_START_MONTH, SCHOOL_YEAR_START_DAY) }

InitLocals ==
    /\ args = NoArgs
    /\ exit_code = -1
    /\ interrupted = FALSE
    /\ db_manager = "unbound"
    /\ email_sender = FALSE
    /\ school_year = NoneYear
    /\ overall_success = TRUE
    /\ db_success = "unset"
    /\ email_success = "unset"
    /\ pending = "none"
    /\ retval = "unset"
    /\ attempt = 0
    /\ errs = <<>>
    /\ fetched = NoResult
    /\ ret = NoReturn
    /\ raised = NoError
    /\ msg = NoMessage
    /\ send_result = "unset"
    /\ sy_result = 0
    /\ events = <<>>

(***************************************************************************)
(* SpecDB: DatabaseManager(max_retries=N).execute_query(query, parameters) *)
(***************************************************************************)
InitDB ==
    /\ InitLocals
    /\ pc = "eq_loop"
    /\ now = datetime(MaxYear, SCHOOL_YEAR_START_MONTH, SCHOOL_YEAR_START_DAY)
    /\ config = [use_tls |-> FALSE, use_auth |-> FALSE]
    /\ max_retries \in (-1)..MaxRetries

NextDB == Attempt \/ RetrySleep \/ RetryExhausted \/ LoopExit

SpecDB == InitDB /\ [][NextDB]_vars

(***************************************************************************)
(* SpecYear: get_current_school_year() at any current date-time            *)
(***************************************************************************)
InitYear ==
    /\ InitLocals
    /\ pc = "sy_call"
    /\ now \in ValidDateTimes
    /\ config = [use_tls |-> FALSE, use_auth |-> FALSE]
    /\ max_retries = DEFAULT_MAX_RETRIES

GetCurrentSchoolYear ==
    /\ pc = "sy_call"
    /\ sy_result' = get_current_school_year(now)
    /\ pc' = "sy_done"
    /\ UNCHANGED <<now, config, args, exit_code, interrupted, db_manager, email_sender,
                   school_year, overall_success, db_success, email_success, pending,
                   retval, max_retries, attempt, errs, fetched, ret, raised, msg,
                   send_result, events>>

NextYear == GetCurrentSchoolYear

SpecYear == InitYear /\ [][NextYear]_vars

(***************************************************************************)
(* SpecMail: up to MaxCalls calls of send_email and test_email_connection  *)
(* on one EmailSender                                                      *)
(***************************************************************************)
InitMail ==
    /\ pc = "mail_idle"
    /\ now = datetime(MaxYear, SCHOOL_YEAR_START_MONTH, SCHOOL_YEAR_START_DAY)
    /\ config \in [use_tls : BOOLEAN, use_auth : BOOLEAN]
    /\ max_retries = DEFAULT_MAX_RETRIES
    /\ args = NoArgs
    /\ exit_code = -1
    /\ interrupted = FALSE
    /\ db_manager = "unbound"
    /\ email_sender = TRUE
    /\ school_year = SomeYear(get_current_school_year(now))
    /\ overall_success = TRUE
    /\ db_success = "unset"
    /\ email_success = "unset"
    /\ pending = "none"
    /\ retval = "unset"
    /\ attempt = 0
    /\ errs = <<>>
    /\ fetched \in { r \in ResultSets : Len(r.rows) \in {0, MaxRows} }
    /\ ret = ReturnRows(RowsToDicts(fetched))
    /\ raised = NoError
    /\ msg = NoMessage
    /\ send_result = "unset"
    /\ sy_result = 0
    /\ events = <<>>

CallsMade ==
    Cardinality({ i \in DOMAIN events :
                    events[i].op \in {"send_email", "test_email_connection"} })

\* email_sender.send_email(data, school_year)
CallSendEmail ==
    /\ pc = "mail_idle"
    /\ CallsMade < MaxCalls
    /\ \E fail \in SendFailures(config) :
            LET r == send_email(ret.rows, school_year.val, config, fail)
            IN  /\ events' = events \o <<Ev("send_email", r.result)>> \o r.events
                /\ msg' = r.msg
                /\ send_result' = IF r.raises THEN "raised" ELSE BoolStr(r.result)
    /\ UNCHANGED <<pc, inputs, eqVars, testVars, runVars, args, exit_code, interrupted,
                   db_manager, email_sender, sy_result>>

\* email_sender.test_email_connection()
CallTestEmailConnection ==
    /\ pc = "mail_idle"
    /\ CallsMade < MaxCalls
    /\ \E fail \in SmtpFailures(config, FALSE) :
            LET r == test_email_connection(config, fail)
            IN  /\ events' = events \o <<Ev("test_email_connection", r.result)>> \o r.events
                /\ email_success' = BoolStr(r.result)
    /\ UNCHANGED <<pc, inputs, eqVars, mailVars, runVars, args, exit_code, interrupted,
                   db_manager, email_sender, overall_success, db_success, sy_result>>

NextMail == CallSendEmail \/ CallTestEmailConnection

SpecMail == InitMail /\ [][NextMail]_vars

(***************************************************************************)
(* Spec: one process run of main(), DatabaseManager() with its defaults    *)
(***************************************************************************)
Init ==
    /\ InitLocals
    /\ pc = "main_parse"
    /\ now \in EpochInstants
    /\ config \in [use_tls : BOOLEAN, use_auth : BOOLEAN]
    /\ max_retries = DEFAULT_MAX_RETRIES

Next ==
    \/ ParseArguments
    \/ ArgparseExit
    \/ MainValidateSchoolYear
    \/ TestDbConstruct
    \/ TestDbProbe
    \/ TestDbClose
    \/ TestEmail
    \/ TestReturn
    \/ RunInit
    \/ RunResolveYear
    \/ RunValidateQueryFile
    \/ RunTestDb
    \/ RunLoadQuery
    \/ Attempt
    \/ RetrySleep
    \/ RetryExhausted
    \/ RunAfterQuery
    \/ RunSendEmail
    \/ RunExcept
    \/ RunFinally
    \/ MainReturn
    \/ MainInterrupt
    \/ Interrupt

Spec == Init /\ [][Next]_vars

(***************************************************************************)
(* Properties                                                              *)
(***************************************************************************)
NumEvents(op) == Cardinality({ i \in DOMAIN events : events[i].op = op })

HasEv(op, ok) == \E i \in DOMAIN events : events[i] = Ev(op, ok)

AllDbErrors == \A i \in DOMAIN errs : errs[i].kind = "db"

\* attempt, sleep, attempt, ..., attempt: every sleep lies between two attempts.
SleepsBetweenAttempts ==
    /\ Len(events) % 2 = 1
    /\ \A i \in DOMAIN events :
            events[i].op = (IF i % 2 = 1 THEN "attempt" ELSE "sleep")

\* C1 (SpecDB): with max_retries = N >= 1, when the first k < N attempts failed
\* with database errors and attempt k+1 succeeded, execute_query has returned
\* the rows of attempt k+1 after exactly k+1 attempts and exactly k sleeps,
\* each sleep between two consecutive attempts.
C1_RetryThenSuccess ==
    (/\ pc = "eq_done"
     /\ max_retries >= 1
     /\ AllDbErrors
     /\ Len(errs) < max_retries
     /\ HasEv("attempt", TRUE))
    => /\ ret = ReturnRows(RowsToDicts(fetched))
       /\ raised = NoError
       /\ NumEvents("attempt") = Len(errs) + 1
       /\ NumEvents("sleep") = Len(errs)
       /\ SleepsBetweenAttempts
       /\ events[Len(events)] = Ev("attempt", TRUE)

C1_Witness ==
    /\ pc = "eq_done"
    /\ max_retries = 3
    /\ Len(errs) = 2
    /\ AllDbErrors
    /\ ret.kind = "rows"
    /\ Len(ret.rows) = MaxRows
    /\ NumEvents("sleep") = 2

\* C2 (SpecDB): an attempt that fails with an error that is no database error
\* ends the call at once, on whichever attempt it happens: that error is the
\* one raised, no attempt and no sleep follows it, and the sleeps before it are
\* those of the earlier database errors (none on the first attempt).
C2_OtherErrorPropagates ==
    \A j \in DOMAIN errs :
        errs[j].kind # "db"
        => /\ j = Len(errs)
           /\ pc = "eq_done"
           /\ raised = errs[j]
           /\ ret = NoReturn
           /\ events[Len(events)] = Ev("attempt", FALSE)
           /\ NumEvents("attempt") = j
           /\ NumEvents("sleep") = j - 1
           /\ (j = 1 => NumEvents("sleep") = 0)

C2_Witness ==
    /\ pc = "eq_done"
    /\ raised = Err("other", 2)
    /\ errs = <<Err("db", 1), Err("other", 2)>>
    /\ NumEvents("sleep") = 1

\* C3 (SpecDB): with max_retries = N >= 1, when all N attempts failed with
\* database errors the error of the N-th attempt is raised, after exactly N
\* attempts and N-1 sleeps, the last event being the failed attempt.
C3_ExhaustedRaisesLast ==
    (/\ pc = "eq_done"
     /\ max_retries >= 1
     /\ AllDbErrors
     /\ Len(errs) = max_retries)
    => /\ raised = Err("db", max_retries)
       /\ raised = errs[Len(errs)]
       /\ ret = NoReturn
       /\ NumEvents("attempt") = max_retries
       /\ NumEvents("sleep") = max_retries - 1
       /\ events[Len(events)] = Ev("attempt", FALSE)

C3_Witness ==
    /\ pc = "eq_done"
    /\ max_retries = 3
    /\ Len(errs) = 3
    /\ AllDbErrors
    /\ raised = Err("db", 3)

FullRun == ~args.test_db /\ ~args.test_email

\* C4 (Spec): in a dry run without test flag send_email is never called and no
\* SMTP connection is opened; when the school year, the query file, the
\* connectivity test and execute_query all succeeded and the run was not
\* interrupted, the exit code is 0, whatever the number of rows.
C4_DryRunSendsNothing ==
    (args.dry_run /\ FullRun)
    => /\ NumEvents("send_email") = 0
       /\ NumEvents("smtp_connect") = 0
       /\ send_result = "unset"
       /\ (/\ pc = "exited"
           /\ ~interrupted
           /\ HasEv("validate_school_year", TRUE)
           /\ HasEv("validate_query_file", TRUE)
           /\ HasEv("test_connection", TRUE)
           /\ ret.kind = "rows")
          => exit_code = 0

C4_Witness ==
    /\ pc = "exited"
    /\ args.dry_run
    /\ FullRun
    /\ ret.kind = "rows"
    /\ Len(ret.rows) = MaxRows
    /\ exit_code = 0

TestMode == args.test_db \/ args.test_email

OverrideRejected ==
    Truthy(args.school_year) /\ ~validate_school_year(args.school_year.val, now)

\* The selected health checks, each once, and nothing else: no query, no email.
OnlySelectedChecksRan ==
    /\ NumEvents("test_connection") = (IF args.test_db THEN 1 ELSE 0)
    /\ NumEvents("test_email_connection") = (IF args.test_email THEN 1 ELSE 0)
    /\ NumEvents("attempt") = 0
    /\ NumEvents("send_email") = 0
    /\ NumEvents("sendmail") = 0

AllSelectedChecksPassed ==
    /\ args.test_db => db_success = "true"
    /\ args.test_email => email_success = "true"

\* A test-mode run that came to its end by itself: no interrupt, and the
\* DatabaseManager constructor did not raise.
TestRunEnded ==
    /\ pc = "exited"
    /\ TestMode
    /\ ~interrupted
    /\ ~HasEv("DatabaseManager", FALSE)

TestModeOutcome ==
    /\ OnlySelectedChecksRan
    /\ exit_code = (IF AllSelectedChecksPassed THEN 0 ELSE 1)
    /\ (~args.test_email => ~email_sender)

C6_ClosedAtExit == pc = "exited" => db_manager # "open"

\* A validation step, a health check, query execution or email sending
\* failed, or an exception was raised.
FailedOps == {"validate_school_year", "validate_query_file", "test_connection",
              "test_email_connection", "DatabaseManager", "load_waiis_query",
              "send_email"}

Failure ==
    \/ \E i \in DOMAIN events : events[i].op \in FailedOps /\ ~events[i].ok
    \/ raised # NoError

ExitCodeRule ==
    /\ exit_code \in {0, 1, 130}
    /\ interrupted => exit_code = 130
    /\ (~interrupted /\ Failure) => exit_code = 1
    /\ exit_code = 0 => (~Failure /\ ~interrupted)
    /\ exit_code = 130 => interrupted

\* C7 as stated (Spec): every process run ends with an exit code in
\* {0, 1, 130}: 130 on an interrupt, 1 on any failure, 0 only without failure.
C7_AsStated == pc = "exited" => ExitCodeRule

\* C7 amended (Spec): every process run whose command line argparse accepts
\* ends with an exit code in {0, 1, 130}, 130 on an interrupt, 1 on any
\* failure, 0 only without failure; a command line argparse rejects ends the
\* process with exit code 2 before anything else is done.
C7_ExitCodes ==
    pc = "exited"
    => IF exit_code = 2
       THEN events = <<>> /\ args = NoArgs /\ ~interrupted
       ELSE ExitCodeRule

C7_Witness ==
    /\ pc = "exited"
    /\ ~interrupted
    /\ raised = Err("db", DEFAULT_MAX_RETRIES)
    /\ exit_code = 1

SmtpOps == {"smtp_connect", "starttls", "login", "sendmail"}

\* C8 (Spec): a call of send_email always ends by returning a boolean, never
\* by raising: false when composing the message or any SMTP call failed, true
\* only when sendmail completed; and an uninterrupted run whose send_email
\* returned false exits with code 1.
C8_SendEmailNeverRaises ==
    /\ NumEvents("send_email") > 0
       => /\ send_result \in {"true", "false"}
          /\ pending # "exception"
          /\ pc # "r_except"
          /\ send_result = "true" => (msg.composed /\ HasEv("sendmail", TRUE))
          /\ (~msg.composed \/ \E i \in DOMAIN events :
                                    events[i].op \in SmtpOps /\ ~events[i].ok)
             => send_result = "false"
    /\ (pc = "exited" /\ send_result = "false" /\ ~interrupted) => exit_code = 1

C8_Witness ==
    /\ pc = "exited"
    /\ ~msg.composed
    /\ HasEv("send_email", FALSE)
    /\ send_result = "false"
    /\ exit_code = 1

\* C9 (Spec): an empty result set is no failure: in a run that is neither a
\* dry run nor interrupted send_email is still called, the message it composes
\* has no attachment, and the exit code is 0 when send_email returns true; a
\* composed message has an attachment iff the result set is not empty.
C9_EmptyResultStillSent ==
    /\ (/\ pc = "exited"
        /\ ~interrupted
        /\ FullRun
        /\ ~args.dry_run
        /\ ret = ReturnRows(<<>>))
       => /\ NumEvents("send_email") = 1
          /\ ~msg.attached
          /\ msg.csv = <<>>
          /\ send_result = "true" => exit_code = 0
    /\ msg.composed
       => /\ msg.attached <=> ret.rows # <<>>
          /\ msg.attached <=> msg.csv # <<>>
          /\ msg.records = Len(ret.rows)

C9_Witness ==
    /\ pc = "exited"
    /\ ret = ReturnRows(<<>>)
    /\ msg.composed
    /\ ~msg.attached
    /\ send_result = "true"
    /\ exit_code = 0

\* Hours from the start of the year of d to d, by counting whole days.
RECURSIVE DaysBeforeMonth(_, _)
DaysBeforeMonth(y, m) ==
    IF m = 1 THEN 0 ELSE DaysBeforeMonth(y, m - 1) + DaysInMonth(y, m - 1)

Instant(d) ==
    (DaysBeforeMonth(d.year, d.month) + (d.day - 1)) * (MaxHour + 1) + d.hour

EpochInstant(y) ==
    Instant([year |-> y, month |-> SCHOOL_YEAR_START_MONTH,
             day |-> SCHOOL_YEAR_START_DAY, hour |-> 0])

\* C10 (SpecYear): get_current_school_year returns d.year when the current
\* date-time d is on or after the epoch instant of d.year (that instant
\* included) and d.year - 1 otherwise.
C10_SchoolYear ==
    pc = "sy_done"
    => sy_result = (IF Instant(now) >= EpochInstant(now.year)
                    THEN now.year
                    ELSE now.year - 1)

C10_Witness ==
    /\ pc = "sy_done"
    /\ now = [year |-> MaxYear, month |-> SCHOOL_YEAR_START_MONTH,
              day |-> SCHOOL_YEAR_START_DAY, hour |-> 0]
    /\ sy_result = MaxYear

\* The steps of a full run, in program order (execute_query shows as its
\* attempts).
StepOps == {"validate_school_year", "validate_query_file", "test_connection",
            "load_waiis_query", "attempt", "send_email"}

\* Steps whose single failure ends the run (a failed attempt may be retried).
GateOps == {"DatabaseManager", "validate_school_year", "validate_query_file",
            "test_connection", "load_waiis_query", "send_email"}

InValidRange(year) == year >= now.year - 10 /\ year <= now.year + 5

\* The three gates passed, in this order, before position n of the log.
GatesPassedBefore(n) ==
    \E i \in 1..n, j \in 1..n, k \in 1..n :
        /\ i < j /\ j < k /\ k < n
        /\ events[i] = Ev("validate_school_year", TRUE)
        /\ events[j] = Ev("validate_query_file", TRUE)
        /\ events[k] = Ev("test_connection", TRUE)

\* C11 (Spec): in a run without test flag every attempt of execute_query comes
\* after the resolved school year was found inside [year-10, year+5] (bounds
\* included), then the query file validated, then the connectivity test
\* passed; send_email is called at most once and only after execute_query
\* returned its rows; a failed step is followed by no other step, and the
\* run, unless interrupted, exits with code 1.
C11_GatingOrder ==
    FullRun
    => /\ \A n \in DOMAIN events :
            events[n].op = "attempt"
            => /\ GatesPassedBefore(n)
               /\ ~school_year.isNone
               /\ InValidRange(school_year.val)
       /\ HasEv("validate_school_year", TRUE)
          => (~school_year.isNone /\ InValidRange(school_year.val))
       /\ HasEv("validate_school_year", FALSE)
          => ~InValidRange(IF pc = "exited" /\ school_year.isNone
                           THEN args.school_year.val ELSE school_year.val)
       /\ NumEvents("send_email") <= 1
       /\ \A n \in DOMAIN events :
            events[n].op = "send_email"
            => /\ ret.kind = "rows"
               /\ raised = NoError
               /\ n > 1
               /\ events[n - 1] = Ev("attempt", TRUE)
               /\ \A m \in DOMAIN events : m > n => events[m].op # "attempt"
       /\ \A n \in DOMAIN events :
            (events[n].op \in GateOps /\ ~events[n].ok)
            => \A m \in DOMAIN events : m > n => events[m].op \notin StepOps
       /\ raised # NoError => NumEvents("send_email") = 0
       /\ (pc = "exited" /\ ~interrupted /\ Failure) => exit_code = 1

C11_Witness ==
    /\ pc = "exited"
    /\ FullRun
    /\ args.school_year = SomeYear(now.year + 5)
    /\ HasEv("attempt", FALSE)
    /\ HasEv("send_email", TRUE)
    /\ exit_code = 0

CallOps == {"send_email", "test_email_connection"}

CallIdx == { n \in DOMAIN events : events[n].op \in CallOps }

\* The log positions that belong to the call logged at position c: the SMTP
\* events that follow it, up to the next event that is none.
SegEnd(c) ==
    CHOOSE e \in c..Len(events) :
        /\ \A n \in (c + 1)..e : events[n].op \in SmtpOps \cup {"smtp_close"}
        /\ e < Len(events) => events[e + 1].op \notin SmtpOps \cup {"smtp_close"}

InCall(c, op) == { n \in (c + 1)..SegEnd(c) : events[n].op = op }

Before(A, B) == \A x \in A, y \in B : x < y /\ events[x].ok

SessionOrdered(c) ==
    LET conn == InCall(c, "smtp_connect")
        tls == InCall(c, "starttls")
        auth == InCall(c, "login")
        send == InCall(c, "sendmail")
        close == InCall(c, "smtp_close")
        connected == \E k \in conn : events[k].ok
    IN  \* its own connection, opened once, used by every later call of the session
        /\ Cardinality(conn) <= 1
        /\ conn = {} => events[c] = Ev("send_email", FALSE)
        /\ events[c].ok => connected
        /\ Before(conn, tls \cup auth \cup send \cup close)
        /\ (tls \cup auth \cup send \cup close) # {} => connected
        \* TLS upgrade iff use_tls, before authentication and transmission
        /\ tls # {} => config.use_tls
        /\ (config.use_tls /\ connected) => Cardinality(tls) = 1
        /\ Before(tls, auth \cup send)
        \* authentication iff use_auth, before transmission
        /\ auth # {} => config.use_auth
        /\ (config.use_auth /\ connected /\ \A t \in tls : events[t].ok)
           => Cardinality(auth) = 1
        /\ Before(auth, send)
        \* test_email_connection never transmits; send_email at most once
        /\ events[c].op = "test_email_connection" => send = {}
        /\ Cardinality(send) <= 1
        /\ (events[c].op = "send_email" /\ events[c].ok)
           => \E m \in send : events[m].ok
        \* closed before the call returns, whatever happened in between
        /\ connected => close = {SegEnd(c)}

\* C12 (SpecMail): every call of send_email and test_email_connection works on
\* a connection it opened itself; starttls is called iff use_tls is set (and
\* the connection was opened) and before login and sendmail; login is called
\* iff use_auth is set (and the session got that far) and before sendmail;
\* test_email_connection never calls sendmail; and the connection is closed
\* as the last act of the call on every path, success or failure.
C12_SmtpSessionOrder == \A c \in CallIdx : SessionOrdered(c)

C12_Witness ==
    /\ config = [use_tls |-> TRUE, use_auth |-> TRUE]
    /\ events = << Ev("send_email", TRUE), Ev("smtp_connect", TRUE), Ev("starttls", TRUE),
                   Ev("login", TRUE), Ev("sendmail", TRUE), Ev("smtp_close", TRUE),
                   Ev("test_email_connection", FALSE), Ev("smtp_connect", TRUE),
                   Ev("starttls", TRUE), Ev("login", FALSE), Ev("smtp_close", TRUE) >>

\* C13 (SpecDB): for every max_retries, 0 and negative values included,
\* execute_query makes at least one attempt and ends in exactly one of two
\* ways: it returns a list of rows or it raises an error; it never returns
\* without a result.
C13_AttemptsThenRowsOrError ==
    pc = "eq_done"
    => /\ NumEvents("attempt") >= 1
       /\ (ret.kind = "rows") # (raised # NoError)
       /\ ret.kind # "none"

====
